---- MODULE Spec2Model ----
(***************************************************************************)
(* Model of src/api_server.py: the OpenAI-style chat-completion gateway.   *)
(* Text is a sequence of one-character strings.  A Python value that can   *)
(* flow through the handlers is a record [t, s, n]: its type tag, its      *)
(* characters (str, bytes) and its number (int).                           *)
(***************************************************************************)
EXTENDS Integers, Sequences, FiniteSets, TLC

(***************************************************************************)
(* Bounds of the model.                                                    *)
(***************************************************************************)
NumSlots == 2        \* requests in flight at the same time
MaxRequests == 3     \* requests accepted in one behaviour
MaxLen == 3          \* length of the exhaustively enumerated short texts
MaxWords == 21       \* longest generated text, in words
MaxMsgs == 2         \* longest enumerated message list

(***************************************************************************)
(* Python values.                                                          *)
(***************************************************************************)
NoneV == [t |-> "none", s |-> <<>>, n |-> 0]
StrV(s) == [t |-> "str", s |-> s, n |-> 0]
BytesV(s) == [t |-> "bytes", s |-> s, n |-> 0]
IntV(n) == [t |-> "int", s |-> <<>>, n |-> n]

Whitespace == {" ", "\n", "\t"}

\* str.split() with no separator: the maximal runs of non-whitespace.
RECURSIVE SplitR(_, _, _)
SplitR(s, cur, acc) ==
  IF s = <<>>
    THEN IF cur = <<>> THEN acc ELSE Append(acc, cur)
    ELSE IF Head(s) \in Whitespace
      THEN SplitR(Tail(s), <<>>, IF cur = <<>> THEN acc ELSE Append(acc, cur))
      ELSE SplitR(Tail(s), Append(cur, Head(s)), acc)

SplitChars(s) == SplitR(s, <<>>, <<>>)

\* sep.join(parts) on character sequences.
RECURSIVE JoinChars(_, _)
JoinChars(sep, parts) ==
  IF parts = <<>> THEN <<>>
  ELSE IF Len(parts) = 1 THEN Head(parts)
  ELSE Head(parts) \o sep \o JoinChars(sep, Tail(parts))

\* words[i:j] with Python's 0-based, end-exclusive, clipped slice.
SliceFromStart(seq, i, j) ==
  LET hi == IF j < Len(seq) THEN j ELSE Len(seq)
  IN  IF i >= hi THEN <<>> ELSE SubSeq(seq, 1, hi)

Slice(seq, i, j) ==
  LET hi == IF j < Len(seq) THEN j ELSE Len(seq)
  IN  IF i >= hi THEN <<>> ELSE SubSeq(seq, i + 1, hi)

DigitChar(d) == <<"0", "1", "2", "3", "4", "5", "6", "7", "8", "9">>[d + 1]

RECURSIVE Digits(_)
Digits(n) == IF n < 10 THEN <<DigitChar(n)>>
             ELSE Digits(n \div 10) \o <<DigitChar(n % 10)>>

\* repr() of the characters of a str or bytes literal body.
RECURSIVE Escape(_)
Escape(s) ==
  IF s = <<>> THEN <<>>
  ELSE (CASE Head(s) = "\n" -> <<"\\", "n">>
          [] Head(s) = "\t" -> <<"\\", "t">>
          [] OTHER -> <<Head(s)>>) \o Escape(Tail(s))

\* str(v) of a scalar value.
PyStr(v) ==
  CASE v.t = "str" -> v.s
    [] v.t = "none" -> <<"N", "o", "n", "e">>
    [] v.t = "int" -> IF v.n < 0 THEN <<"-">> \o Digits(0 - v.n) ELSE Digits(v.n)
    [] v.t = "bytes" -> <<"b", "'">> \o Escape(v.s) \o <<"'">>

\* repr(v) of a scalar value, as str() of a container shows its elements.
PyRepr(v) ==
  IF v.t = "str" THEN <<"'">> \o Escape(v.s) \o <<"'">> ELSE PyStr(v)

(***************************************************************************)
(* Backend replies: what client.chat may return.  A reply is               *)
(*   [k |-> "val",  items |-> <<v>>]   the scalar v itself                 *)
(*   [k |-> "obj",  items |-> <<v>>]   an object whose .content is v       *)
(*   [k |-> "dict", items |-> <<v>>]   the mapping {"content": v}          *)
(*   [k |-> "dict", items |-> <<>>]    the mapping {}                      *)
(*   [k |-> "list", items |-> vs]      the list vs                         *)
(***************************************************************************)
ValR(v) == [k |-> "val", items |-> <<v>>]
ObjR(v) == [k |-> "obj", items |-> <<v>>]
DictR(v) == [k |-> "dict", items |-> <<v>>]
EmptyDictR == [k |-> "dict", items |-> <<>>]
ListR(vs) == [k |-> "list", items |-> vs]

\* str(raw_response) of a whole reply that no earlier rule took.
PyStrReply(raw) ==
  CASE raw.k = "val" -> PyStr(raw.items[1])
    [] raw.k = "list" ->
         <<"[">> \o JoinChars(<<",", " ">>,
                      [i \in 1..Len(raw.items) |-> PyRepr(raw.items[i])]) \o <<"]">>
    [] raw.k = "dict" -> <<"{", "}">>

\* Faulty variant: a non-empty list is shown whole, not by its first element.
NormalizeWholeList(raw) ==
  IF raw.k = "val" /\ raw.items[1].t = "str" THEN raw.items[1]
  ELSE IF raw.k = "obj" THEN raw.items[1]
  ELSE IF raw.k = "dict" /\ Len(raw.items) > 0 THEN raw.items[1]
  ELSE StrV(PyStrReply(raw))

\* Lines 60-69 and 160-169: the reply-shape cascade, first match wins.
Normalize(raw) ==
  IF raw.k = "val" /\ raw.items[1].t = "str" THEN raw.items[1]
  ELSE IF raw.k = "obj" THEN raw.items[1]
  ELSE IF raw.k = "dict" /\ Len(raw.items) > 0 THEN raw.items[1]
  ELSE IF raw.k = "list" /\ Len(raw.items) > 0 THEN StrV(PyStr(raw.items[1]))
  ELSE StrV(PyStrReply(raw))

(***************************************************************************)
(* Exceptions are carried as [raised, msg, val]: val when nothing was      *)
(* raised, msg = str(e) otherwise.                                         *)
(***************************************************************************)
Ok(v) == [raised |-> FALSE, msg |-> "", val |-> v]
Raise(m) == [raised |-> TRUE, msg |-> m, val |-> <<>>]

TypeName(v) ==
  CASE v.t = "none" -> "NoneType" [] v.t = "int" -> "int"
    [] v.t = "str" -> "str" [] v.t = "bytes" -> "bytes"

\* Line 73: response.split().  str and bytes have the method; the items of
\* the list are of the type that was split.
PySplit(response) ==
  IF response.t = "str"
    THEN Ok([i \in 1..Len(SplitChars(response.s)) |-> StrV(SplitChars(response.s)[i])])
  ELSE IF response.t = "bytes"
    THEN Ok([i \in 1..Len(SplitChars(response.s)) |-> BytesV(SplitChars(response.s)[i])])
  ELSE Raise("'" \o TypeName(response) \o "' object has no attribute 'split'")

\* Faulty variant: the items are glued together, the separator is dropped.
PyJoinGlued(sep, items) ==
  IF \A i \in 1..Len(items) : items[i].t = "str"
    THEN Ok(JoinChars(<<>>, [i \in 1..Len(items) |-> items[i].s]))
    ELSE Raise("sequence item 0: expected str instance")

\* Line 77: " ".join(chunk_words) raises TypeError on the first item that is
\* no str.
PyJoin(sep, items) ==
  IF \A i \in 1..Len(items) : items[i].t = "str"
    THEN Ok(JoinChars(sep, [i \in 1..Len(items) |-> items[i].s]))
    ELSE LET bad == CHOOSE i \in 1..Len(items) :
                      /\ items[i].t # "str"
                      /\ \A j \in 1..(i - 1) : items[j].t = "str"
         IN  Raise("sequence item " \o Digits(bad - 1)[1] \o ": expected str instance, "
                   \o TypeName(items[bad]) \o " found")

chunk_size == 10

\* Faulty variant: the slice ends one word early.
ChunkTextShort(ws, i) ==
  LET joined == PyJoin(<<" ">>, Slice(ws, i, i + chunk_size - 1))
  IN  IF joined.raised THEN joined
      ELSE IF i + chunk_size < Len(ws) THEN Ok(joined.val \o <<" ">>)
      ELSE joined

\* Faulty variant: every chunk gets the trailing space.
ChunkTextAlwaysPads(ws, i) ==
  LET joined == PyJoin(<<" ">>, Slice(ws, i, i + chunk_size))
  IN  IF joined.raised THEN joined ELSE Ok(joined.val \o <<" ">>)

\* Lines 76-80: the text of the chunk that starts at word i.
ChunkText(ws, i) ==
  LET joined == PyJoin(<<" ">>, Slice(ws, i, i + chunk_size))
  IN  IF joined.raised THEN joined
      ELSE IF i + chunk_size < Len(ws) THEN Ok(joined.val \o <<" ">>)
      ELSE joined

(***************************************************************************)
(* Frames of a stream: the payload of one `data: ...` record.              *)
(***************************************************************************)
\* Lines 82-92.
ContentFrame(model, text) ==
  [kind |-> "chunk", id |-> "chatcmpl-ollama", object |-> "chat.completion.chunk",
   model |-> model, index |-> 0, delta |-> <<text>>, finish_reason |-> "null"]

\* Lines 98-108.
StopFrame(model) ==
  [kind |-> "chunk", id |-> "chatcmpl-ollama", object |-> "chat.completion.chunk",
   model |-> model, index |-> 0, delta |-> <<>>, finish_reason |-> "stop"]

\* Line 111.
DoneFrame == [kind |-> "sentinel", text |-> "[DONE]"]

\* Lines 114-119.
ErrorFrame(msg) == [kind |-> "error", message |-> msg, type |-> "server_error"]

\* Faulty variant: the loop runs once more, for i = len(words).
LoopStepExtraChunk(ws, i, model) ==
  IF i <= Len(ws)
    THEN LET text == ChunkText(ws, i)
         IN  IF text.raised
               THEN [pc |-> "y_error", frame |-> ErrorFrame(text.msg)]
               ELSE [pc |-> "y_chunk", frame |-> ContentFrame(model, text.val)]
    ELSE [pc |-> "y_final", frame |-> StopFrame(model)]

\* Lines 75-110: what the generator yields next when the loop variable is i,
\* and where it is then suspended.
LoopStep(ws, i, model) ==
  IF i < Len(ws)
    THEN LET text == ChunkText(ws, i)
         IN  IF text.raised
               THEN [pc |-> "y_error", frame |-> ErrorFrame(text.msg)]
               ELSE [pc |-> "y_chunk", frame |-> ContentFrame(model, text.val)]
    ELSE [pc |-> "y_final", frame |-> StopFrame(model)]

\* Faulty variant: a failing split() is taken for an empty text.
FirstYieldSwallows(raw, model) ==
  LET split == PySplit(Normalize(raw))
      ws == IF split.raised THEN <<>> ELSE split.val
  IN  [pc |-> LoopStep(ws, 0, model).pc, frame |-> LoopStep(ws, 0, model).frame,
       words |-> ws]

\* Lines 60-110: from the backend's reply to the first yield.
FirstYield(raw, model) ==
  LET split == PySplit(Normalize(raw))
  IN  IF split.raised
        THEN [pc |-> "y_error", frame |-> ErrorFrame(split.msg), words |-> <<>>]
        ELSE [pc |-> LoopStep(split.val, 0, model).pc,
              frame |-> LoopStep(split.val, 0, model).frame,
              words |-> split.val]

(***************************************************************************)
(* Requests.                                                               *)
(***************************************************************************)
NoModel == "<None>"     \* "model": null, and current_model before first use
NoHandle == 0           \* chat_client = None

Msg(role, content) == [role |-> role, content |-> content]

\* Truthiness of an Optional[str].
Truthy(v) == v.t = "str" /\ Len(v.s) > 0

\* Faulty variant: the first user message instead of the last.
FirstUserMessage(messages) ==
  LET user_messages == SelectSeq(messages, LAMBDA m : m.role = "user")
  IN  IF Len(user_messages) > 0 THEN user_messages[1].content ELSE <<>>

\* Lines 46-47 and 145-146.
LastUserMessage(messages) ==
  LET user_messages == SelectSeq(messages, LAMBDA m : m.role = "user")
  IN  IF Len(user_messages) > 0
        THEN user_messages[Len(user_messages)].content
        ELSE <<>>

\* Lines 46-53 and 145-152.
AssemblePrompt(messages, system) ==
  LET user_message == LastUserMessage(messages)
  IN  IF Truthy(system) /\ Len(user_message) > 0
        THEN system.s \o <<"\n", "\n", "U", "s", "e", "r", ":", " ">> \o user_message
             \o <<"\n", "\n", "A", "s", "s", "i", "s", "t", "a", "n", "t", ":">>
      ELSE IF Truthy(system) THEN system.s
      ELSE user_message

\* Faulty variant: the content is str(response).
EnvelopeStringified(model, response) ==
  IF model = NoModel
    THEN Raise("1 validation error for ChatResponse: model: Input should be a valid string")
    ELSE Ok([id |-> "chatcmpl-ollama", object |-> "chat.completion", model |-> model,
             choices |-> << [index |-> 0,
                             message |-> [role |-> "assistant",
                                          content |-> StrV(PyStr(response))],
                             finish_reason |-> "stop"] >>])

\* Lines 23-28 and 171-183: ChatResponse validates model: str.
Envelope(model, response) ==
  IF model = NoModel
    THEN Raise("1 validation error for ChatResponse: model: Input should be a valid string")
    ELSE Ok([id |-> "chatcmpl-ollama", object |-> "chat.completion", model |-> model,
             choices |-> << [index |-> 0,
                             message |-> [role |-> "assistant", content |-> response],
                             finish_reason |-> "stop"] >>])

\* Faulty variant: the detail is a fixed text.
HttpErrorGeneric(msg) == [status |-> 500, detail |-> "Internal Server Error"]

\* Line 186.
HttpError(msg) == [status |-> 500, detail |-> msg]

(***************************************************************************)
(* State.                                                                  *)
(***************************************************************************)
VARIABLES
  chat_client,    \* line 31: the cached handle, NoHandle before first use
  current_model,  \* line 32: the cached model name
  handles,        \* the handles constructed so far: handle h is a ChatOllama
                  \* constructed for model handles[h]
  pc,             \* where each request is
  request,        \* the ChatRequest of each slot
  client,         \* local `client` of each request
  user_message,   \* local `user_message`: the prompt
  calls,          \* the client.chat invocations each request has made
  raw_response,   \* what client.chat returned
  response,       \* local `response`: the normalized reply
  words,          \* local `words`
  idx,            \* loop variable `i`
  frames,         \* the frames the generator has yielded
  result,         \* what chat_completions returned or raised
  served,         \* requests accepted so far
  downstream      \* the consumer of each stream: whether it has gone away,
                  \* and how many frames the stream held when it did

vars == <<chat_client, current_model, handles, pc, request, client, user_message,
          calls, raw_response, response, words, idx, frames, result, served,
          downstream>>

Slots == 1..NumSlots

NoRequest == [messages |-> <<>>, system |-> NoneV, model |-> NoModel,
              stream |-> FALSE, unset |-> TRUE]
NoReply == [k |-> "unset", items |-> <<>>]
Unset == [t |-> "unset", s |-> <<>>, n |-> 0]
NoResult == [status |-> 0]
Open == [closed |-> FALSE, frames |-> 0]

Init ==
  /\ chat_client = NoHandle
  /\ current_model = NoModel
  /\ handles = <<>>
  /\ pc = [r \in Slots |-> "idle"]
  /\ request = [r \in Slots |-> NoRequest]
  /\ client = [r \in Slots |-> NoHandle]
  /\ user_message = [r \in Slots |-> <<>>]
  /\ calls = [r \in Slots |-> <<>>]
  /\ raw_response = [r \in Slots |-> NoReply]
  /\ response = [r \in Slots |-> Unset]
  /\ words = [r \in Slots |-> <<>>]
  /\ idx = [r \in Slots |-> 0]
  /\ frames = [r \in Slots |-> <<>>]
  /\ result = [r \in Slots |-> NoResult]
  /\ served = 0
  /\ downstream = [r \in Slots |-> Open]

(***************************************************************************)
(* get_chat_client, lines 34-39.  It has no await, so it runs as one step  *)
(* of the event loop.  ChatOllama(model=...) is the external constructor:  *)
(* ctor_ok says whether this call of it succeeds.                          *)
(***************************************************************************)
\* Faulty variant: a cached handle is reused whatever its model.
NeedsNewOnlyEmpty(model) == chat_client = NoHandle

\* Line 36.
NeedsNew(model) == chat_client = NoHandle \/ current_model # model

\* The call get_chat_client(model) by slot r; `raised` is its outcome.
AcquireRaises(model, ctor_ok) == NeedsNew(model) /\ ~ctor_ok

\* Faulty variant: the new handle is cached without its model name.
GetChatClientStaleName(r, model, ctor_ok) ==
  /\ IF NeedsNew(model) /\ ctor_ok
       THEN /\ handles' = Append(handles, model)
            /\ chat_client' = Len(handles) + 1
       ELSE UNCHANGED <<handles, chat_client>>
  /\ UNCHANGED current_model
  /\ client' = [client EXCEPT ![r] =
       IF AcquireRaises(model, ctor_ok) THEN NoHandle ELSE chat_client']

GetChatClient(r, model, ctor_ok) ==
  /\ IF NeedsNew(model) /\ ctor_ok
       THEN /\ handles' = Append(handles, model)
            /\ chat_client' = Len(handles) + 1
            /\ current_model' = model
       ELSE UNCHANGED <<handles, chat_client, current_model>>
  /\ client' = [client EXCEPT ![r] =
       IF AcquireRaises(model, ctor_ok) THEN NoHandle ELSE chat_client']

\* The model a handle was constructed for.
HandleModel(h) == handles[h]

\* Lines 57 and 155: one client.chat(user_message) handed to a worker thread,
\* and how it has ended so far.
Invocation(h, prompt, outcome, error) ==
  [handle |-> h, prompt |-> prompt, outcome |-> outcome, error |-> error]

\* Faulty variant: the call runs on whatever handle the cache holds when it ends.
EndedOnCached(cs, outcome, error) ==
  [cs EXCEPT ![Len(cs)] = Invocation(chat_client, @.prompt, outcome, error)]

Ended(cs, outcome, error) ==
  [cs EXCEPT ![Len(cs)] = Invocation(@.handle, @.prompt, outcome, error)]

CtorError == "Can't find locally running ollama"

(***************************************************************************)
(* chat_completions, lines 123-186.                                        *)
(***************************************************************************)
\* Lines 125-138: stream=true returns the StreamingResponse around a generator
\* that has not run yet.
SubmitStream(r, reqs, limit) ==
  /\ pc[r] = "idle"
  /\ served < limit
  /\ \E rq \in reqs :
       /\ rq.stream
       /\ request' = [request EXCEPT ![r] = rq]
  /\ pc' = [pc EXCEPT ![r] = "gen_new"]
  /\ result' = [result EXCEPT ![r] = [status |-> 200, media |-> "text/event-stream"]]
  /\ served' = served + 1
  /\ UNCHANGED downstream
  /\ UNCHANGED <<chat_client, current_model, handles, client, user_message, calls,
                 raw_response, response, words, idx, frames>>

\* Lines 139-155: stream=false runs to the await of the backend call.
SubmitPlain(r, reqs, limit) ==
  /\ pc[r] = "idle"
  /\ served < limit
  /\ served' = served + 1
  /\ \E rq \in reqs, ctor_ok \in BOOLEAN :
       /\ ~rq.stream
       /\ request' = [request EXCEPT ![r] = rq]
       /\ GetChatClient(r, rq.model, ctor_ok)
       /\ IF AcquireRaises(rq.model, ctor_ok)
            THEN /\ result' = [result EXCEPT ![r] = HttpError(CtorError)]
                 /\ pc' = [pc EXCEPT ![r] = "done"]
                 /\ UNCHANGED <<user_message, calls>>
            ELSE /\ user_message' = [user_message EXCEPT
                                       ![r] = AssemblePrompt(rq.messages, rq.system)]
                 /\ calls' = [calls EXCEPT ![r] = Append(@,
                                Invocation(client'[r], user_message'[r], "pending", ""))]
                 /\ pc' = [pc EXCEPT ![r] = "await_backend"]
                 /\ UNCHANGED result
  /\ UNCHANGED downstream
  /\ UNCHANGED <<raw_response, response, words, idx, frames>>

(***************************************************************************)
(* generate_stream_response, lines 41-120.                                 *)
(***************************************************************************)
\* Faulty variant: an opening chunk is yielded before the backend is awaited.
StreamStartEager(r) ==
  /\ pc[r] = "gen_new"
  /\ \E ctor_ok \in BOOLEAN :
       /\ GetChatClient(r, request[r].model, ctor_ok)
       /\ IF AcquireRaises(request[r].model, ctor_ok)
            THEN /\ frames' = [frames EXCEPT ![r] = Append(@, ErrorFrame(CtorError))]
                 /\ pc' = [pc EXCEPT ![r] = "y_error"]
                 /\ UNCHANGED <<user_message, calls>>
            ELSE /\ user_message' = [user_message EXCEPT
                     ![r] = AssemblePrompt(request[r].messages, request[r].system)]
                 /\ calls' = [calls EXCEPT ![r] = Append(@,
                                Invocation(client'[r], user_message'[r], "pending", ""))]
                 /\ pc' = [pc EXCEPT ![r] = "await_backend"]
                 /\ frames' = [frames EXCEPT
                                ![r] = Append(@, ContentFrame(request[r].model, <<>>))]
  /\ UNCHANGED downstream
  /\ UNCHANGED <<request, raw_response, response, words, idx, result, served>>

\* Lines 43-57: the first pull of the generator runs it to the await.
StreamStart(r) ==
  /\ pc[r] = "gen_new"
  /\ \E ctor_ok \in BOOLEAN :
       /\ GetChatClient(r, request[r].model, ctor_ok)
       /\ IF AcquireRaises(request[r].model, ctor_ok)
            THEN /\ frames' = [frames EXCEPT ![r] = Append(@, ErrorFrame(CtorError))]
                 /\ pc' = [pc EXCEPT ![r] = "y_error"]
                 /\ UNCHANGED <<user_message, calls>>
            ELSE /\ user_message' = [user_message EXCEPT
                     ![r] = AssemblePrompt(request[r].messages, request[r].system)]
                 /\ calls' = [calls EXCEPT ![r] = Append(@,
                                Invocation(client'[r], user_message'[r], "pending", ""))]
                 /\ pc' = [pc EXCEPT ![r] = "await_backend"]
                 /\ UNCHANGED frames
  /\ UNCHANGED downstream
  /\ UNCHANGED <<request, raw_response, response, words, idx, result, served>>

\* Lines 57-110 and 155-183: client.chat returns `raw` and the coroutine runs
\* on to its next suspension.
BackendReturn(r, replies) ==
  /\ pc[r] = "await_backend"
  /\ \E raw \in replies :
       /\ raw_response' = [raw_response EXCEPT ![r] = raw]
       /\ response' = [response EXCEPT ![r] = Normalize(raw)]
       /\ IF request[r].stream
            THEN LET y == FirstYield(raw, request[r].model)
                 IN  /\ words' = [words EXCEPT ![r] = y.words]
                     /\ frames' = [frames EXCEPT ![r] = Append(@, y.frame)]
                     /\ pc' = [pc EXCEPT ![r] = y.pc]
                     /\ UNCHANGED result
            ELSE LET e == Envelope(request[r].model, Normalize(raw))
                 IN  /\ result' = [result EXCEPT ![r] =
                           IF e.raised THEN HttpError(e.msg)
                           ELSE [status |-> 200, body |-> e.val]]
                     /\ pc' = [pc EXCEPT ![r] = "done"]
                     /\ UNCHANGED <<words, frames>>
  /\ calls' = [calls EXCEPT ![r] = Ended(@, "returned", "")]
  /\ UNCHANGED downstream
  /\ UNCHANGED <<chat_client, current_model, handles, request, client, user_message,
                 idx, served>>

\* Lines 57, 113-120 and 155, 185-186: client.chat raises.
BackendRaise(r, errors) ==
  /\ pc[r] = "await_backend"
  /\ \E msg \in errors :
       /\ calls' = [calls EXCEPT ![r] = Ended(@, "raised", msg)]
       /\ IF request[r].stream
            THEN /\ frames' = [frames EXCEPT ![r] = Append(@, ErrorFrame(msg))]
                 /\ pc' = [pc EXCEPT ![r] = "y_error"]
                 /\ UNCHANGED result
            ELSE /\ result' = [result EXCEPT ![r] = HttpError(msg)]
                 /\ pc' = [pc EXCEPT ![r] = "done"]
                 /\ UNCHANGED frames
  /\ UNCHANGED downstream
  /\ UNCHANGED <<chat_client, current_model, handles, request, client, user_message,
                 raw_response, response, words, idx, served>>

\* Lines 94-95: the consumer pulls again after a content chunk and the
\* generator suspends in asyncio.sleep.
Sleep(r) ==
  /\ pc[r] = "y_chunk"
  /\ pc' = [pc EXCEPT ![r] = "sleeping"]
  /\ UNCHANGED downstream
  /\ UNCHANGED <<chat_client, current_model, handles, request, client, user_message,
                 calls, raw_response, response, words, idx, frames, result, served>>

\* Lines 75-110: the sleep ends; the loop advances and yields again.
Wake(r) ==
  /\ pc[r] = "sleeping"
  /\ idx' = [idx EXCEPT ![r] = @ + chunk_size]
  /\ LET y == LoopStep(words[r], idx'[r], request[r].model)
     IN  /\ frames' = [frames EXCEPT ![r] = Append(@, y.frame)]
         /\ pc' = [pc EXCEPT ![r] = y.pc]
  /\ UNCHANGED downstream
  /\ UNCHANGED <<chat_client, current_model, handles, request, client, user_message,
                 calls, raw_response, response, words, result, served>>

\* Faulty variant: the generator returns right after the stop chunk.
AfterYieldNoSentinel(at) == [pc |-> "done", out |-> <<>>]

\* Lines 110-120: where the generator goes when it is resumed from a yield
\* after the loop, and what it yields there.
AfterYield(at) ==
  IF at = "y_final" THEN [pc |-> "y_done", out |-> <<DoneFrame>>]
  ELSE [pc |-> "done", out |-> <<>>]

Resume(r) ==
  /\ pc[r] \in {"y_final", "y_done", "y_error"}
  /\ pc' = [pc EXCEPT ![r] = AfterYield(pc[r]).pc]
  /\ frames' = [frames EXCEPT ![r] = @ \o AfterYield(pc[r]).out]
  /\ UNCHANGED downstream
  /\ UNCHANGED <<chat_client, current_model, handles, request, client, user_message,
                 calls, raw_response, response, words, idx, result, served>>

\* The response has been delivered; the slot takes the next request.
Recycle(r) ==
  /\ pc[r] = "done"
  /\ pc' = [pc EXCEPT ![r] = "idle"]
  /\ request' = [request EXCEPT ![r] = NoRequest]
  /\ client' = [client EXCEPT ![r] = NoHandle]
  /\ user_message' = [user_message EXCEPT ![r] = <<>>]
  /\ calls' = [calls EXCEPT ![r] = <<>>]
  /\ raw_response' = [raw_response EXCEPT ![r] = NoReply]
  /\ response' = [response EXCEPT ![r] = Unset]
  /\ words' = [words EXCEPT ![r] = <<>>]
  /\ idx' = [idx EXCEPT ![r] = 0]
  /\ frames' = [frames EXCEPT ![r] = <<>>]
  /\ result' = [result EXCEPT ![r] = NoResult]
  /\ downstream' = [downstream EXCEPT ![r] = Open]
  /\ UNCHANGED <<chat_client, current_model, handles, served>>

\* The consumer of the stream of slot r goes away.  Nothing in lines 41-120
\* reads the state of the transport, so no local of the generator changes.
Disconnect(r) ==
  /\ ~request[r].unset /\ request[r].stream
  /\ pc[r] \notin {"idle", "done"}
  /\ ~downstream[r].closed
  /\ downstream' = [downstream EXCEPT ![r] = [closed |-> TRUE, frames |-> Len(frames[r])]]
  /\ UNCHANGED <<chat_client, current_model, handles, pc, request, client, user_message,
                 calls, raw_response, response, words, idx, frames, result, served>>

\* The server, once it has noticed the disconnect, cancels the generator
\* where it is suspended.  Lines 113-120 catch Exception only, so the
\* cancellation passes through and no frame is yielded.
Close(r) ==
  /\ downstream[r].closed
  /\ pc[r] \notin {"idle", "done"}
  /\ pc' = [pc EXCEPT ![r] = "done"]
  /\ UNCHANGED <<chat_client, current_model, handles, request, client, user_message,
                 calls, raw_response, response, words, idx, frames, result, served,
                 downstream>>

(***************************************************************************)
(* Inputs.                                                                 *)
(***************************************************************************)
Models == {NoModel, "phi4:latest", "gemma3:latest"}

\* The text of n one-letter words, a b a b ..., separated by single spaces.
WordsText(n) == JoinChars(<<" ">>, [i \in 1..n |-> IF i % 2 = 1 THEN <<"a">> ELSE <<"b">>])

\* The text of n one-letter words a b c a b c ...: no two groups of chunk_size
\* words are alike.
OrderedText(n) ==
  JoinChars(<<" ">>, [i \in 1..n |-> <<<<"c">>, <<"a">>, <<"b">>>>[(i % 3) + 1]])

Alphabet == {"a", "b", " ", "\n"}

RECURSIVE TextsUpTo(_)
TextsUpTo(n) ==
  IF n = 0 THEN {<<>>}
  ELSE LET shorter == TextsUpTo(n - 1)
       IN  shorter \cup {Append(t, c) : t \in shorter, c \in Alphabet}

BackendErrors == {"connection refused", ""}

Req(messages, system, model, stream) ==
  [messages |-> messages, system |-> system, model |-> model, stream |-> stream,
   unset |-> FALSE]

Values ==
  {NoneV, IntV(5), IntV(0 - 12), BytesV(<<>>), BytesV(<<"a", " ", "b">>),
   StrV(<<>>), StrV(<<"a", " ", "b">>), StrV(WordsText(chunk_size + 1))}

Texts ==
  TextsUpTo(MaxLen) \cup {WordsText(n) : n \in 0..MaxWords}
  \cup {OrderedText(chunk_size + 1), OrderedText(2 * chunk_size + 1)}

\* Every reply shape, with every text as the plain string.
WideReplies ==
  {ValR(StrV(t)) : t \in Texts}
  \cup {ValR(v) : v \in Values} \cup {ObjR(v) : v \in Values}
  \cup {DictR(v) : v \in Values} \cup {EmptyDictR, ListR(<<>>)}
  \cup {ListR(<<v>>) : v \in Values} \cup {ListR(<<NoneV, v>>) : v \in Values}

FewReplies == {ValR(StrV(WordsText(chunk_size + 1))), ObjR(IntV(5))}

Contents == {<<>>, <<"h", "i">>, <<"y", "o">>}
Roles == {"user", "assistant", "system"}

RECURSIVE MessageLists(_)
MessageLists(n) ==
  IF n = 0 THEN {<<>>}
  ELSE LET shorter == MessageLists(n - 1)
       IN  shorter \cup {Append(ms, Msg(ro, c)) : ms \in shorter, ro \in Roles, c \in Contents}

Systems == {NoneV, StrV(<<>>), StrV(<<"S">>)}

\* Every message list and system prompt, one model.
WideRequests ==
  {Req(ms, sy, "phi4:latest", st) :
     ms \in MessageLists(MaxMsgs), sy \in Systems, st \in BOOLEAN}

\* One message list, every model, both modes.
SmallRequests ==
  {Req(<<Msg("user", <<"h", "i">>)>>, NoneV, m, st) : m \in Models, st \in BOOLEAN}

\* The concurrent specification: the models that have a name.
NamedRequests == {rq \in SmallRequests : rq.model # NoModel}

SmallReplies == {ValR(StrV(WordsText(chunk_size + 1)))}

\* Two message lists, with and without a system prompt, both modes.
PairRequests ==
  {Req(ms, sy, "phi4:latest", st) :
     ms \in {<<>>, <<Msg("user", <<"h", "i">>)>>}, sy \in {NoneV, StrV(<<"S">>)},
     st \in BOOLEAN}

\* Replies of several shapes, one of them with whitespace that is no single
\* space.
PairReplies ==
  {ValR(StrV(<<" ", "a", "\n", "b">>)), ValR(StrV(WordsText(chunk_size + 1))),
   ObjR(NoneV), ObjR(BytesV(<<>>)), ListR(<<NoneV, StrV(<<"a">>)>>), EmptyDictR}

\* Faulty variant: client.chat and the pacing delay run on the event loop.
HoldsLoopWhileSuspended(q) == pc[q] \in {"await_backend", "sleeping"}

\* Lines 57, 95 and 155: whether the suspended handler of slot q occupies the
\* event loop.  The call runs in a worker thread (asyncio.to_thread) and the
\* delay is asyncio.sleep, so it never does.
HoldsLoop(q) == FALSE

\* The event loop can run the handler of slot r.
LoopFree(r) == \A q \in Slots \ {r} : ~HoldsLoop(q)

Step(slots, reqs, replies, errors, limit) ==
  \E r \in slots :
    /\ LoopFree(r)
    /\ \/ SubmitStream(r, reqs, limit)
       \/ SubmitPlain(r, reqs, limit)
       \/ StreamStart(r)
       \/ BackendReturn(r, replies)
       \/ BackendRaise(r, errors)
       \/ Sleep(r)
       \/ Wake(r)
       \/ Resume(r)
       \/ Recycle(r)

\* Concurrent requests against the shared client cache.
Next == Step(Slots, NamedRequests, SmallReplies, {"connection refused"}, MaxRequests)

Spec == Init /\ [][Next]_vars

\* The steps of slot r that need nothing but the event loop and a consumer
\* that keeps reading: the first pull, the timer of line 95, the later pulls.
Proceed(r) == LoopFree(r) /\ (StreamStart(r) \/ Sleep(r) \/ Wake(r) \/ Resume(r))

\* Two requests side by side.
PairSlots == {1, 2}

\* Fair scheduling of the event loop for two concurrent requests.  Nothing is
\* assumed of the backend: a call may stay in progress forever.
NextFair ==
  Step(PairSlots, NamedRequests, SmallReplies, {"connection refused"}, MaxRequests)

SpecFair == Init /\ [][NextFair]_vars /\ \A r \in PairSlots : WF_vars(Proceed(r))

\* One request at a time, every reply shape and text.
NextText == Step({1}, SmallRequests, WideReplies, BackendErrors, 1)

SpecText == Init /\ [][NextText]_vars

\* The same with a consumer that keeps reading and a timer that expires.
SpecTextFair == SpecText /\ WF_vars(Proceed(1))

\* One request at a time, with a consumer that may go away.
NextCancel ==
  \/ Step({1}, SmallRequests, WideReplies, BackendErrors, 1)
  \/ Disconnect(1)
  \/ Close(1)

SpecCancel == Init /\ [][NextCancel]_vars

\* Two requests side by side, so that a stream and a plain request with the
\* same inputs can be compared.
NextPair ==
  Step(PairSlots, PairRequests, PairReplies, {"connection refused"}, Cardinality(PairSlots))

SpecPair == Init /\ [][NextPair]_vars

\* One request at a time, every message list and system prompt.
NextPrompt == Step({1}, WideRequests, FewReplies, BackendErrors, 1)

SpecPrompt == Init /\ [][NextPrompt]_vars

(***************************************************************************)
(* Vocabulary of the properties.                                           *)
(***************************************************************************)
IsContent(f) == f.kind = "chunk" /\ f.finish_reason = "null"
IsStop(f) == f.kind = "chunk" /\ f.finish_reason = "stop"
IsSentinel(f) == f.kind = "sentinel"
IsError(f) == f.kind = "error"

Streaming(r) == ~request[r].unset /\ request[r].stream
Plain(r) == ~request[r].unset /\ ~request[r].stream

StopAt(fs) == {i \in 1..Len(fs) : IsStop(fs[i])}
SentinelAt(fs) == {i \in 1..Len(fs) : IsSentinel(fs[i])}
ErrorAt(fs) == {i \in 1..Len(fs) : IsError(fs[i])}
ContentOf(fs) == SelectSeq(fs, IsContent)

\* The stream ended the normal way: stop chunk, then sentinel.
EndsNormally(fs) ==
  /\ Len(fs) >= 2
  /\ IsStop(fs[Len(fs) - 1])
  /\ fs[Len(fs) - 1].delta = <<>>
  /\ IsSentinel(fs[Len(fs)])

RECURSIVE Concat(_)
Concat(ss) == IF ss = <<>> THEN <<>> ELSE Head(ss) \o Concat(Tail(ss))

\* The concatenation, in emission order, of the delta content of the content chunks.
Deltas(fs) == Concat([i \in 1..Len(ContentOf(fs)) |-> ContentOf(fs)[i].delta[1]])

AcquireRaised(r) == pc[r] \notin {"idle", "gen_new"} /\ client[r] = NoHandle
InvocationRaised(r) == Len(calls[r]) > 0 /\ calls[r][Len(calls[r])].outcome = "raised"

(***************************************************************************)
(* C1.  A stream consumed to its end ends with exactly one stop chunk with *)
(* an empty delta immediately followed by exactly one [DONE] sentinel,     *)
(* unless an error frame was emitted instead; no stream ever holds more    *)
(* than one stop chunk or more than one sentinel, and nothing follows the  *)
(* sentinel.                                                               *)
(***************************************************************************)
C1_StreamTermination ==
  \A r \in Slots : Streaming(r) =>
    LET fs == frames[r]
    IN  /\ Cardinality(StopAt(fs)) <= 1
        /\ Cardinality(SentinelAt(fs)) <= 1
        /\ \A i \in SentinelAt(fs) : i = Len(fs)
        /\ pc[r] = "done" =>
             \/ ErrorAt(fs) # {}
             \/ /\ EndsNormally(fs)
                /\ Cardinality(StopAt(fs)) = 1
                /\ Cardinality(SentinelAt(fs)) = 1

C1_Witness ==
  \E r \in Slots :
    /\ Streaming(r) /\ pc[r] = "done"
    /\ Len(ContentOf(frames[r])) = 2
    /\ EndsNormally(frames[r])

(***************************************************************************)
(* C2.  Round trip: the concatenated delta content of a normally ended     *)
(* stream equals the canonical text, whitespace included.                  *)
(***************************************************************************)
C2_RoundTrip ==
  \A r \in Slots :
    (Streaming(r) /\ pc[r] = "done" /\ EndsNormally(frames[r]) /\ response[r].t = "str")
      => Deltas(frames[r]) = response[r].s

(***************************************************************************)
(* C3.  Whatever the shape of the backend reply, the normalized value is a *)
(* string, in the streaming and in the non-streaming path.                 *)
(***************************************************************************)
C3_NormalizerReturnsString ==
  \A r \in Slots : response[r] # Unset => response[r].t = "str"

(***************************************************************************)
(* C4.  In a stream, an exception of client acquisition, of the backend    *)
(* invocation, of normalization or of chunk generation puts exactly one    *)
(* error frame {error: {message, type: "server_error"}} on the stream, and *)
(* that frame is the last one: no stream holds an error frame together     *)
(* with a stop chunk or a sentinel.                                        *)
(***************************************************************************)
C4_ErrorFrameEndsStream ==
  \A r \in Slots : Streaming(r) =>
    LET fs == frames[r]
    IN  /\ Cardinality(ErrorAt(fs)) <= 1
        /\ \A i \in ErrorAt(fs) :
             /\ i = Len(fs)
             /\ fs[i].type = "server_error"
             /\ StopAt(fs) = {} /\ SentinelAt(fs) = {}
        /\ AcquireRaised(r) => fs = <<ErrorFrame(CtorError)>>
        /\ InvocationRaised(r) =>
             fs = <<[kind |-> "error", message |-> calls[r][1].error,
                     type |-> "server_error"]>>
        \* split() exists on str and bytes only; join() takes str items only
        /\ (response[r] # Unset /\ response[r].t \notin {"str", "bytes"}) =>
             (Len(fs) = 1 /\ IsError(fs[1]))
        /\ (response[r].t = "bytes" /\ \E i \in 1..Len(response[r].s) :
                                          response[r].s[i] \notin Whitespace) =>
             (Len(fs) = 1 /\ IsError(fs[1]))

C4_Witness ==
  \E r \in Slots :
    /\ Streaming(r) /\ pc[r] = "done"
    /\ response[r].t = "bytes"
    /\ ErrorAt(frames[r]) = {1}

(***************************************************************************)
(* C5.  A canonical text of n whitespace-separated words is streamed as    *)
(* ceil(n / 10) content chunks; each but the last carries 10 words and the *)
(* last carries n mod 10 words, or 10 when 10 divides n > 0; for n = 0     *)
(* there is no content chunk and the stream still ends with the stop chunk *)
(* and the sentinel.                                                       *)
(***************************************************************************)
WordCount(text) == Len(SplitChars(text))

C5_ChunkGrouping ==
  \A r \in Slots :
    (Streaming(r) /\ pc[r] = "done" /\ response[r].t = "str") =>
      LET n == WordCount(response[r].s)
          cs == ContentOf(frames[r])
      IN  /\ EndsNormally(frames[r])
          /\ Len(frames[r]) = Len(cs) + 2
          /\ Len(cs) = (n + 9) \div 10
          /\ \A i \in 1..Len(cs) :
               WordCount(cs[i].delta[1]) =
                 IF i < Len(cs) THEN 10
                 ELSE IF n % 10 = 0 THEN 10 ELSE n % 10

C5_Witness ==
  \E r \in Slots :
    /\ Streaming(r) /\ pc[r] = "done" /\ response[r].t = "str"
    /\ WordCount(response[r].s) = 20
    /\ Len(ContentOf(frames[r])) = 2

(***************************************************************************)
(* C6.  A call get_chat_client(m) constructs a handle exactly when no      *)
(* handle is cached or the cached model name differs from m.  A call that  *)
(* constructs nothing returns the cached handle and leaves the cache as it *)
(* is, so a second call with the same model name returns the handle of the *)
(* first; a call that constructs caches the new handle under m.            *)
(***************************************************************************)
\* Slot r calls get_chat_client in this step.
Acquires(r) ==
  \/ pc[r] = "idle" /\ pc'[r] \notin {"idle", "gen_new"}
  \/ pc[r] = "gen_new" /\ pc'[r] # "gen_new"

C6_AcquireConstructsIffMiss ==
  [][\A r \in Slots : Acquires(r) =>
       LET m == request'[r].model
           built == Len(handles') = Len(handles) + 1
           \* the constructor was called: it returned a handle or it raised
           constructs == built \/ client'[r] = NoHandle
       IN  /\ constructs <=> (chat_client = NoHandle \/ current_model # m)
           /\ ~constructs =>
                /\ client'[r] = chat_client
                /\ UNCHANGED <<chat_client, current_model, handles>>
           /\ built =>
                /\ client'[r] = Len(handles') /\ handles'[client'[r]] = m
                /\ chat_client' = client'[r] /\ current_model' = m
           /\ ~built => UNCHANGED <<chat_client, current_model, handles>>]_vars

\* Two calls with the same model name in a row, one construction: both requests
\* hold the one handle.
C6_Witness ==
  /\ Len(handles) = 1
  /\ client[1] = 1 /\ client[2] = 1
  /\ request[1].model = request[2].model

(***************************************************************************)
(* C7.  In every reachable state the cache holds at most one handle, the   *)
(* newest, and the cached model name is the model that handle was          *)
(* constructed for; before the first construction both are unset.          *)
(***************************************************************************)
C7_CacheConsistent ==
  /\ chat_client \in {NoHandle} \cup 1..Len(handles)
  /\ chat_client = NoHandle <=> handles = <<>>
  /\ chat_client = NoHandle => current_model = NoModel
  /\ chat_client # NoHandle =>
       /\ chat_client = Len(handles)
       /\ HandleModel(chat_client) = current_model

\* Two requests in flight on different handles, the cache holding the newer.
C7_Witness ==
  /\ \A r \in {1, 2} : pc[r] = "await_backend"
  /\ client[1] = 1 /\ client[2] = 2
  /\ chat_client = 2
  /\ request[1].stream /\ ~request[2].stream

(***************************************************************************)
(* C8.  Without streaming, an exception of client acquisition or of the    *)
(* backend invocation ends the request with status 500 and the exception's *)
(* message as detail, and a request that ended with status 500 returned no *)
(* completion envelope.                                                    *)
(***************************************************************************)
C8_PlainFailureIs500 ==
  \A r \in Slots : Plain(r) =>
    /\ AcquireRaised(r) => result[r] = [status |-> 500, detail |-> CtorError]
    /\ InvocationRaised(r) =>
         result[r] = [status |-> 500, detail |-> calls[r][1].error]
    /\ result[r].status = 500 => "body" \notin DOMAIN result[r]
    /\ pc[r] = "done" => result[r].status \in {200, 500}

C8_Witness ==
  \E r \in Slots :
    /\ Plain(r) /\ pc[r] = "done"
    /\ InvocationRaised(r)
    /\ calls[r][1].error = "connection refused"

(***************************************************************************)
(* C9.  The prompt handed to the backend.  The user text is the content of *)
(* the last message with role "user", empty if there is none.  With a      *)
(* system prompt present and a user message existing the prompt is         *)
(* "{system}\n\nUser: {user}\n\nAssistant:"; with only a system prompt it  *)
(* is the system prompt; otherwise it is the user text.                    *)
(***************************************************************************)
UserAt(messages) == {i \in 1..Len(messages) : messages[i].role = "user"}

LastOf(S) == CHOOSE i \in S : \A j \in S : j <= i

UserText(messages) ==
  IF UserAt(messages) = {} THEN <<>> ELSE messages[LastOf(UserAt(messages))].content

Combined(system, user) ==
  system \o <<"\n", "\n", "U", "s", "e", "r", ":", " ">> \o user
         \o <<"\n", "\n", "A", "s", "s", "i", "s", "t", "a", "n", "t", ":">>

\* As claimed: "present" is "given", "exists" is "there is a user message".
ClaimedPrompt(messages, system) ==
  IF system.t # "none" /\ UserAt(messages) # {}
    THEN Combined(system.s, UserText(messages))
  ELSE IF system.t # "none" THEN system.s
  ELSE UserText(messages)

\* As the code has it: "present" is "given and not empty", for both texts.
AmendedPrompt(messages, system) ==
  LET has_system == system.t # "none" /\ system.s # <<>>
  IN  IF has_system /\ UserText(messages) # <<>>
        THEN Combined(system.s, UserText(messages))
      ELSE IF has_system THEN system.s
      ELSE UserText(messages)

Prompted(r) == ~request[r].unset /\ Len(calls[r]) > 0

C9_PromptAsClaimed ==
  \A r \in Slots : Prompted(r) =>
    /\ user_message[r] = ClaimedPrompt(request[r].messages, request[r].system)
    /\ calls[r][1].prompt = user_message[r]

C9_PromptAssembly ==
  \A r \in Slots : Prompted(r) =>
    /\ user_message[r] = AmendedPrompt(request[r].messages, request[r].system)
    /\ calls[r][1].prompt = user_message[r]

\* Two user messages with different texts and a system prompt: the combined form.
C9_Witness ==
  \E r \in Slots :
    /\ Prompted(r)
    /\ request[r].system = StrV(<<"S">>)
    /\ request[r].messages = <<Msg("user", <<"h", "i">>), Msg("user", <<"y", "o">>)>>
    /\ user_message[r] = Combined(<<"S">>, <<"y", "o">>)

(***************************************************************************)
(* C10.  A non-streaming request that succeeds has made exactly one        *)
(* backend invocation, with the assembled prompt, and returns one envelope *)
(* with exactly one choice, whose finish_reason is "stop" and whose        *)
(* message content is the normalizer's result on that invocation's reply.  *)
(***************************************************************************)
C10_PlainSuccess ==
  \A r \in Slots :
    (Plain(r) /\ pc[r] = "done" /\ result[r].status = 200) =>
      /\ Len(calls[r]) = 1
      /\ calls[r][1].outcome = "returned"
      /\ calls[r][1].prompt = AssemblePrompt(request[r].messages, request[r].system)
      /\ Len(result[r].body.choices) = 1
      /\ result[r].body.choices[1].finish_reason = "stop"
      /\ result[r].body.choices[1].message.content = Normalize(raw_response[r])

C10_Witness ==
  \E r \in Slots :
    /\ Plain(r) /\ pc[r] = "done" /\ result[r].status = 200
    /\ raw_response[r].k = "list" /\ Len(raw_response[r].items) = 2
    /\ result[r].body.choices[1].message.content = StrV(<<"N", "o", "n", "e">>)

(***************************************************************************)
(* C11.  The normalized reply follows the five rules in order: a plain     *)
(* string is kept; else the content attribute's value; else the value at   *)
(* the "content" key; else, for a non-empty list, the text of its first    *)
(* element; else the text of the whole value.  The empty list falls to the *)
(* last rule and gives "[]".                                               *)
(***************************************************************************)
TextOfNone == <<"N", "o", "n", "e">>

C11_FiveRules ==
  \A r \in Slots : raw_response[r] # NoReply =>
    LET raw == raw_response[r]
        first == raw.items[1]
    IN  /\ (raw.k = "val" /\ first.t = "str") => response[r] = first
        /\ raw.k = "obj" => response[r] = first
        /\ (raw.k = "dict" /\ raw.items # <<>>) => response[r] = first
        /\ (raw.k = "list" /\ raw.items # <<>>) =>
             /\ response[r].t = "str"
             /\ first.t = "str" => response[r].s = first.s
             /\ first.t = "none" => response[r].s = TextOfNone
        /\ (raw.k = "list" /\ raw.items = <<>>) => response[r] = StrV(<<"[", "]">>)
        /\ (raw.k = "dict" /\ raw.items = <<>>) => response[r] = StrV(<<"{", "}">>)
        /\ (raw.k = "val" /\ first.t = "none") => response[r] = StrV(TextOfNone)
        /\ (raw.k = "val" /\ first = IntV(5)) => response[r] = StrV(<<"5">>)
        /\ (raw.k = "val" /\ first = IntV(0 - 12)) =>
             response[r] = StrV(<<"-", "1", "2">>)

\* The empty list went through the stream as the text "[]".
C11_Witness ==
  \E r \in Slots :
    /\ raw_response[r] = ListR(<<>>)
    /\ response[r] = StrV(<<"[", "]">>)
    /\ Streaming(r) /\ pc[r] = "done"
    /\ Len(ContentOf(frames[r])) = 1

(***************************************************************************)
(* C12.  A stream invokes the backend once, and that invocation has ended  *)
(* before the first frame is emitted; nothing is invoked once a frame is   *)
(* out.                                                                    *)
(***************************************************************************)
AllEnded(cs) == \A i \in 1..Len(cs) : cs[i].outcome # "pending"

\* As claimed: every stream that has emitted a frame has invoked exactly once.
C12_InvokedExactlyOnce ==
  \A r \in Slots : (Streaming(r) /\ frames[r] # <<>>) =>
    /\ Len(calls[r]) = 1
    /\ AllEnded(calls[r])

\* As the code has it: no invocation when the client could not be acquired.
C12_InvokedBeforeFrames ==
  \A r \in Slots : Streaming(r) =>
    /\ Len(calls[r]) <= 1
    /\ frames[r] # <<>> =>
         /\ AllEnded(calls[r])
         /\ Len(calls[r]) = 1 <=> client[r] # NoHandle
         /\ Len(calls[r]) = 0 => frames[r] = <<ErrorFrame(CtorError)>>

\* One stream has its first chunk out after its call returned, while the
\* other request's call is still running.
C12_Witness ==
  \E r, q \in Slots :
    /\ Streaming(r) /\ Len(frames[r]) = 1 /\ IsContent(frames[r][1])
    /\ calls[r][1].outcome = "returned"
    /\ q # r /\ pc[q] = "await_backend"

(***************************************************************************)
(* C13.  Content chunks come in the order of their word groups in the      *)
(* canonical text, each with index 0 and no finish_reason; they all        *)
(* precede the stop chunk, which is the only chunk with finish_reason      *)
(* "stop" and carries no delta content.                                    *)
(***************************************************************************)
\* The k-th group of chunk_size words of the word list ws.
Group(ws, k) ==
  LET hi == IF k * chunk_size < Len(ws) THEN k * chunk_size ELSE Len(ws)
  IN  SubSeq(ws, (k - 1) * chunk_size + 1, hi)

C13_ChunkOrder ==
  \A r \in Slots : Streaming(r) =>
    LET fs == frames[r]
        cs == ContentOf(fs)
    IN  /\ \A k \in 1..Len(cs) :
             /\ fs[k] = cs[k]
             /\ cs[k].index = 0
             /\ cs[k].finish_reason = "null"
             /\ response[r].t = "str"
             /\ SplitChars(cs[k].delta[1]) = Group(SplitChars(response[r].s), k)
        /\ \A i \in 1..Len(fs) :
             (fs[i].kind = "chunk" /\ fs[i].finish_reason = "stop") =>
               /\ i = Len(cs) + 1
               /\ fs[i].delta = <<>>
               /\ fs[i].index = 0
        /\ \A i \in 1..Len(fs) :
             fs[i].kind = "chunk" => fs[i].finish_reason \in {"null", "stop"}

\* A stream of 21 distinguishable words: three chunks, then the stop chunk.
C13_Witness ==
  \E r \in Slots :
    /\ Streaming(r)
    /\ response[r] = StrV(OrderedText(2 * chunk_size + 1))
    /\ Len(frames[r]) = 4
    /\ IsContent(frames[r][3]) /\ frames[r][3].delta = <<<<"c">>>>
    /\ IsStop(frames[r][4])

(***************************************************************************)
(* C14.  The delta content of a content chunk is its words joined by       *)
(* single spaces, followed by exactly one space unless it is the chunk of  *)
(* the last word group, which has no trailing separator; no content chunk  *)
(* has an empty delta.                                                     *)
(***************************************************************************)
C14_DeltaSpacing ==
  \A r \in Slots : (Streaming(r) /\ response[r].t = "str") =>
    LET cs == ContentOf(frames[r])
        ws == SplitChars(response[r].s)
        last == (Len(ws) + chunk_size - 1) \div chunk_size
    IN  \A k \in 1..Len(cs) :
          LET text == cs[k].delta[1]
              joined == JoinChars(<<" ">>, Group(ws, k))
          IN  /\ text # <<>>
              /\ k <= last
              /\ k < last => text = joined \o <<" ">>
              /\ k = last => text = joined

\* A stream of 20 words has ended: a padded chunk, then an unpadded one.
C14_Witness ==
  \E r \in Slots :
    /\ Streaming(r) /\ pc[r] = "done" /\ EndsNormally(frames[r])
    /\ response[r] = StrV(WordsText(2 * chunk_size))
    /\ ContentOf(frames[r])[1].delta[1][Len(ContentOf(frames[r])[1].delta[1])] = " "
    /\ ContentOf(frames[r])[2].delta[1][Len(ContentOf(frames[r])[2].delta[1])] = "b"

(***************************************************************************)
(* C15.  A request whose backend call is in progress, or whose stream is   *)
(* in its pacing delay, never keeps another request from its next step:    *)
(* the other request's step stays enabled, and under fair scheduling its   *)
(* acquire, its chunk emissions and its termination occur.                 *)
(***************************************************************************)
Suspended(q) == pc[q] \in {"await_backend", "sleeping"}
Emitting(r) == pc[r] \in {"y_chunk", "sleeping", "y_final", "y_done", "y_error"}

C15_NoStall ==
  /\ [](\A r \in Slots :
          (pc[r] = "gen_new" \/ Emitting(r)) => ENABLED <<Proceed(r)>>_vars)
  /\ \A r \in Slots :
       /\ (pc[r] = "gen_new") ~> (pc[r] # "gen_new" /\ (client[r] # NoHandle \/ frames[r] # <<>>))
       /\ \A n \in 0..3 :
            (pc[r] = "y_chunk" /\ Len(frames[r]) = n) ~> (Len(frames[r]) > n)
       /\ Emitting(r) ~> (pc[r] = "done")

\* The first call ever made is still in progress, and a stream that acquired
\* its client after it has run to its end.
C15_Witness ==
  \E r, q \in Slots :
    /\ pc[q] = "await_backend" /\ client[q] = 1
    /\ Streaming(r) /\ client[r] = 2 /\ pc[r] = "done" /\ EndsNormally(frames[r])

(***************************************************************************)
(* C16.  A stream whose backend call has returned or raised, and whose     *)
(* consumer keeps reading, reaches its end: the [DONE] sentinel or an      *)
(* error frame is its last frame.  A stream never holds more than          *)
(* ceil(n/10) + 2 frames, n being the number of words of the canonical     *)
(* text.                                                                   *)
(***************************************************************************)
\* The number of words of the canonical text of slot r, 0 while there is none.
CanonicalWords(r) == IF response[r].t = "str" THEN WordCount(response[r].s) ELSE 0

Terminal(fs) == fs # <<>> /\ (IsSentinel(fs[Len(fs)]) \/ IsError(fs[Len(fs)]))

C16_FiniteStream ==
  /\ [](\A r \in Slots : Streaming(r) =>
          Len(frames[r]) <= (CanonicalWords(r) + chunk_size - 1) \div chunk_size + 2)
  /\ \A r \in Slots :
       (Streaming(r) /\ calls[r] # <<>> /\ AllEnded(calls[r]))
         ~> (Streaming(r) /\ pc[r] = "done" /\ Terminal(frames[r]))

\* A stream of 21 words has ended with as many frames as the bound allows.
C16_Witness ==
  \E r \in Slots :
    /\ Streaming(r) /\ pc[r] = "done" /\ Terminal(frames[r])
    /\ CanonicalWords(r) = 2 * chunk_size + 1
    /\ Len(frames[r]) = 5

(***************************************************************************)
(* C17.  Once the consumer of a stream has gone away in mid-stream, after  *)
(* its first frame, the stream gets no further frame: it holds the frames  *)
(* it held at the disconnect.                                              *)
(***************************************************************************)
C17_SilentAfterDisconnect ==
  \A r \in Slots :
    (downstream[r].closed /\ downstream[r].frames > 0) =>
      Len(frames[r]) = downstream[r].frames

(***************************************************************************)
(* C18.  The handle on which a request invokes the backend was constructed *)
(* for the request's own model, from the start of the call to its end,     *)
(* also when another request has replaced the cached handle meanwhile.     *)
(***************************************************************************)
C18_OwnHandle ==
  \A r \in Slots : ~request[r].unset =>
    /\ client[r] # NoHandle => HandleModel(client[r]) = request[r].model
    /\ \A i \in 1..Len(calls[r]) :
         /\ calls[r][i].handle = client[r]
         /\ calls[r][i].handle \in 1..Len(handles)
         /\ HandleModel(calls[r][i].handle) = request[r].model

\* A call is in progress on the first handle while the cache already holds
\* the second one, constructed for another model.
C18_Witness ==
  \E r \in Slots :
    /\ pc[r] = "await_backend"
    /\ calls[r] # <<>> /\ calls[r][1].outcome = "pending"
    /\ calls[r][1].handle = 1 /\ chat_client = 2
    /\ current_model # request[r].model

(***************************************************************************)
(* C19.  A stream and a plain request with the same message list, system   *)
(* prompt and model send the same prompt to the backend; given the same    *)
(* reply they derive the same canonical text, and when the stream ends     *)
(* normally the words of its concatenated deltas are the words of the      *)
(* content of the plain request's envelope.                                *)
(***************************************************************************)
SameInputs(r, q) ==
  /\ Streaming(r) /\ Plain(q)
  /\ request[r].messages = request[q].messages
  /\ request[r].system = request[q].system
  /\ request[r].model = request[q].model

SameReply(r, q) == raw_response[r] # NoReply /\ raw_response[r] = raw_response[q]

EnvelopeContent(q) == result[q].body.choices[1].message.content

====
